---- MODULE Spec2Model ----
(***************************************************************************)
(* A model of the logger of mpc-qt (src/logger.cpp): the static entry      *)
(* points Logger::log, which post queued method invocations to the thread  *)
(* the Logger object lives in, the slots that run there (makeLog*,         *)
(* flushMessages, setLogFile, setLoggingEnabled, setFlushTime), the flush  *)
(* timer, the fatal path and the singleton accessor.                       *)
(*                                                                         *)
(* Text is a sequence of atoms (strings standing for runs of characters);  *)
(* the atoms of WhiteSpace stand for single white-space characters.        *)
(***************************************************************************)
EXTENDS Integers, Sequences, FiniteSets, TLC

----------------------------------------------------------------------------
(* Bounds of the model and input sets *)

MaxCalls == 4
MaxInstances == 2

Owner == "owner"
Producers == {"p1", "p2"}
Threads == {Owner} \cup Producers
\* the threads that call the setters when any thread may
Callers == {Owner, "p1"}
Paths == {"a", "b"}
Writable == {"a"}
Msecs == {0, 50}
\* setFlushTime arguments on both sides of zero and of the least interval
FlushTimes == {-1, 0, 1, 50, 99, 100, 101, 250}
\* what each thread's framework messages are classified as
MsgTypes(t) == IF t = Owner THEN {"QtFatalMsg"} ELSE {"QtWarningMsg", "QtFatalMsg"}
\* the values the line builder is given, by name
QVariantNames == {"sample", "nested", "text", "empty", "invalid"}
\* the statements that use a line builder: prefix, level, value
LogStreamUses ==
    {<< <<>>, <<>>, "sample">>, << <<"mpv">>, <<>>, "sample">>,
     << <<"mpv">>, <<"info">>, "nested">>, << <<>>, <<>>, "text">>,
     << <<>>, <<>>, "empty">>, << <<"mpv">>, <<>>, "invalid">>}
Digit == <<"1", "2", "3", "4", "5">>

NullPtr == ""
EmptyString == ""
NoInstance == 0

----------------------------------------------------------------------------
(* Text helpers: QString::trimmed, QString::arg, QStringList::join *)

WhiteSpace == {" ", "\t", "\n"}

RECURSIVE TrimLeft(_)
TrimLeft(s) ==
    IF s # <<>> /\ Head(s) \in WhiteSpace THEN TrimLeft(Tail(s)) ELSE s

RECURSIVE TrimRight(_)
TrimRight(s) ==
    IF s # <<>> /\ s[Len(s)] \in WhiteSpace
    THEN TrimRight(SubSeq(s, 1, Len(s) - 1))
    ELSE s

trimmed(s) == TrimRight(TrimLeft(s))

\* QString("[%1] %2").arg(prefix, message)
Arg2(prefix, message) == <<"[">> \o prefix \o <<"]", " ">> \o message

\* QString("[%1] %2: %3").arg(prefix, level, message)
Arg3(prefix, level, message) ==
    <<"[">> \o prefix \o <<"]", " ">> \o level \o <<":", " ">> \o message

RECURSIVE join(_, _)
join(strings, sep) ==
    IF strings = <<>> THEN <<>>
    ELSE IF Len(strings) = 1 THEN strings[1]
    ELSE strings[1] \o <<sep>> \o join(Tail(strings), sep)

RECURSIVE Flatten(_)
Flatten(ss) == IF ss = <<>> THEN <<>> ELSE Head(ss) \o Flatten(Tail(ss))

Last(s) == s[Len(s)]

EndsWith(s, t) ==
    Len(s) >= Len(t) /\ SubSeq(s, Len(s) - Len(t) + 1, Len(s)) = t

----------------------------------------------------------------------------
VARIABLES
    loggerInstanceSetBefore, \* static bool
    loggerInstance,          \* static Logger *: NoInstance or an instance id
    liveInstances,           \* the Logger objects constructed and not destroyed
    pc,                      \* position of each thread inside singleton()
    loggingEnabled, immediateMode, pendingMessages,
    logFileName, logFile, logFileStream,
    timerActive, timerInterval,   \* flushTimer
    queue,                   \* posted method invocations of the owning thread
    files,                   \* content of each file, as atoms
    events,                  \* the signals emitted: logMessage, logMessageBuffer
    stderrOut, aborted,
    sent,                    \* how many log calls each producer has made
    accepted,                \* producer lines that passed makeLog's enabled test
    nCalls,                  \* log calls and setter calls that took effect
    lastOp                   \* the operation that made the last step

statics == <<loggerInstanceSetBefore, loggerInstance, liveInstances, pc>>
fields == <<loggingEnabled, immediateMode, pendingMessages, logFileName,
            logFile, logFileStream, timerActive, timerInterval>>
\* PendingMessages, the file handle and the timer
owned == <<pendingMessages, logFile, logFileStream, timerActive, timerInterval>>
outputs == <<files, events, stderrOut, aborted>>
ghosts == <<sent, accepted, nCalls>>
vars == <<statics, fields, queue, outputs, ghosts, lastOp>>

----------------------------------------------------------------------------
(* The Logger object together with what its methods write: every method is  *)
(* an operator from this record to this record.                            *)

this ==
    [loggingEnabled |-> loggingEnabled, immediateMode |-> immediateMode,
     pendingMessages |-> pendingMessages, logFileName |-> logFileName,
     logFile |-> logFile, logFileStream |-> logFileStream,
     timerActive |-> timerActive, timerInterval |-> timerInterval,
     queue |-> queue, files |-> files, events |-> events]

Commit(self) ==
    /\ loggingEnabled' = self.loggingEnabled
    /\ immediateMode' = self.immediateMode
    /\ pendingMessages' = self.pendingMessages
    /\ logFileName' = self.logFileName
    /\ logFile' = self.logFile
    /\ logFileStream' = self.logFileStream
    /\ timerActive' = self.timerActive
    /\ timerInterval' = self.timerInterval
    /\ queue' = self.queue
    /\ files' = self.files
    /\ events' = self.events

\* Values of the members the class declaration initialises (logger.h)
InitialLoggingEnabled == FALSE
InitialPointer == NullPtr

\* QTimer's default interval
DefaultInterval == 0
\* the least interval setFlushTime sets
MinInterval == 100

Max(a, b) == IF a >= b THEN a ELSE b

\* *logFileStream << text; logFileStream->flush(): the stream was set to
\* generate a byte order mark, which it writes ahead of its first text
StreamWrite(self, text) ==
    LET f == self.logFileStream
        old == self.files[f]
    IN [self EXCEPT !.files[f] =
            (IF old = <<>> THEN <<"BOM">> ELSE old) \o text]

\* Logger::singleton() once loggerInstanceSetBefore is set: the stored pointer
singleton == loggerInstance

\* QMetaObject::invokeMethod(log, method, Qt::QueuedConnection, args...)
invokeMethod(self, method, args) ==
    [self EXCEPT !.queue = Append(@,
        [method |-> method, args |-> args,
         postedEnabled |-> self.loggingEnabled,
         postedSink |-> self.logFileStream])]

\* log(line) calling the handler on the calling thread
log_1_direct(self, line) ==
    IF singleton = NoInstance THEN self
    ELSE [self EXCEPT !.pendingMessages = Append(@, line)]

log_1(self, line) ==
    IF singleton = NoInstance THEN self
    ELSE invokeMethod(self, "makeLog", <<line>>)

log_2(self, prefix, message) ==
    IF singleton = NoInstance THEN self
    ELSE invokeMethod(self, "makeLogPrefixed", <<prefix, message>>)

\* log(prefix, level, message) buffering the line on the calling thread
log_3_direct(self, prefix, level, message) ==
    IF singleton = NoInstance THEN self
    ELSE [self EXCEPT !.pendingMessages =
             Append(@, trimmed(Arg3(prefix, level, message)))]

log_3(self, prefix, level, message) ==
    IF singleton = NoInstance THEN self
    ELSE invokeMethod(self, "makeLogDescriptively", <<prefix, level, message>>)

logs_2(self, prefix, strings) == log_2(self, prefix, join(strings, " "))

\* flushMessages without the test for an empty buffer
flushMessages_noEmptyTest(self) ==
    LET written ==
            IF self.logFileStream # NullPtr
            THEN StreamWrite(self,
                     join(self.pendingMessages, "\n") \o <<"\n">>)
            ELSE self
    IN [written EXCEPT
           !.events = Append(@, [kind |-> "logMessageBuffer",
                                 lines |-> self.pendingMessages]),
           !.pendingMessages = <<>>]

\* flushMessages leaving the buffer as it is
flushMessages_noClear(self) ==
    IF self.pendingMessages = <<>> THEN self
    ELSE LET written ==
                 IF self.logFileStream # NullPtr
                 THEN StreamWrite(self,
                          join(self.pendingMessages, "\n") \o <<"\n">>)
                 ELSE self
         IN [written EXCEPT
                !.events = Append(@, [kind |-> "logMessageBuffer",
                                      lines |-> self.pendingMessages])]

flushMessages(self) ==
    IF self.pendingMessages = <<>> THEN self
    ELSE LET written ==
                 IF self.logFileStream # NullPtr
                 THEN StreamWrite(self,
                          join(self.pendingMessages, "\n") \o <<"\n">>)
                 ELSE self
         IN [written EXCEPT
                !.events = Append(@, [kind |-> "logMessageBuffer",
                                      lines |-> self.pendingMessages]),
                !.pendingMessages = <<>>]

\* makeLog putting the line in front of the buffer
makeLog_prepend(self, line) ==
    IF ~self.loggingEnabled THEN self
    ELSE LET l == trimmed(line) IN
         IF self.immediateMode
         THEN LET emitted ==
                      [self EXCEPT !.events =
                          Append(@, [kind |-> "logMessage", lines |-> <<l>>])]
              IN IF self.logFileStream # NullPtr
                 THEN StreamWrite(emitted, l \o <<"\n">>)
                 ELSE emitted
         ELSE [self EXCEPT !.pendingMessages = <<l>> \o @]

\* makeLog without the test of loggingEnabled
makeLog_unguarded(self, line) ==
    LET l == trimmed(line) IN
    IF self.immediateMode
    THEN LET emitted ==
                 [self EXCEPT !.events =
                     Append(@, [kind |-> "logMessage", lines |-> <<l>>])]
         IN IF self.logFileStream # NullPtr
            THEN StreamWrite(emitted, l \o <<"\n">>)
            ELSE emitted
    ELSE [self EXCEPT !.pendingMessages = Append(@, l)]

\* makeLog buffering the line in immediate mode too
makeLog_alwaysBuffer(self, line) ==
    IF ~self.loggingEnabled THEN self
    ELSE [self EXCEPT !.pendingMessages = Append(@, trimmed(line))]

makeLog(self, line) ==
    IF ~self.loggingEnabled THEN self
    ELSE LET l == trimmed(line) IN
         IF self.immediateMode
         THEN LET emitted ==
                      [self EXCEPT !.events =
                          Append(@, [kind |-> "logMessage", lines |-> <<l>>])]
              IN IF self.logFileStream # NullPtr
                 THEN StreamWrite(emitted, l \o <<"\n">>)
                 ELSE emitted
         ELSE [self EXCEPT !.pendingMessages = Append(@, l)]

makeLogPrefixed(self, prefix, message) ==
    makeLog(self, Arg2(prefix, message))

makeLogDescriptively(self, prefix, level, message) ==
    makeLog(self, Arg3(prefix, level, message))

\* openOk: whether QFile::open(QFile::WriteOnly) succeeds; it truncates
setLogFile(self, fileName, openOk) ==
    IF self.logFileName = fileName THEN self
    ELSE LET named == [self EXCEPT !.logFileName = fileName] IN
         IF fileName = EmptyString
         THEN [log_2(named, <<"logger">>, <<"log file closed">>) EXCEPT
                  !.logFileStream = NullPtr, !.logFile = NullPtr]
         ELSE LET created == [named EXCEPT !.logFile = fileName] IN
              IF ~openOk THEN created
              ELSE [logs_2([created EXCEPT !.files[fileName] = <<>>],
                           <<"logger">>,
                           << <<"log file">>, <<fileName>>,
                              <<"opened for writing">> >>)
                      EXCEPT !.logFileStream = fileName]

\* setLoggingEnabled whose disable branch does not flush
setLoggingEnabled_noFlush(self, enabled) ==
    IF enabled /\ ~self.loggingEnabled
    THEN LET on == makeLogPrefixed([self EXCEPT !.loggingEnabled = TRUE],
                                   <<"logger">>, <<"enabling logging">>)
         IN IF ~on.immediateMode THEN [on EXCEPT !.timerActive = TRUE] ELSE on
    ELSE IF ~enabled /\ self.loggingEnabled
    THEN [makeLogPrefixed(self, <<"logger">>, <<"disabling logging">>)
             EXCEPT !.timerActive = FALSE, !.loggingEnabled = FALSE]
    ELSE self

\* setLoggingEnabled testing only its argument
setLoggingEnabled_unguarded(self, enabled) ==
    IF enabled
    THEN LET on == makeLogPrefixed([self EXCEPT !.loggingEnabled = TRUE],
                                   <<"logger">>, <<"enabling logging">>)
         IN IF ~on.immediateMode THEN [on EXCEPT !.timerActive = TRUE] ELSE on
    ELSE [flushMessages(makeLogPrefixed(self, <<"logger">>,
                                        <<"disabling logging">>))
             EXCEPT !.timerActive = FALSE, !.loggingEnabled = FALSE]

\* setLoggingEnabled announcing the change through the queued log call
setLoggingEnabled_queued(self, enabled) ==
    IF enabled /\ ~self.loggingEnabled
    THEN LET on == log_2([self EXCEPT !.loggingEnabled = TRUE],
                         <<"logger">>, <<"enabling logging">>)
         IN IF ~on.immediateMode THEN [on EXCEPT !.timerActive = TRUE] ELSE on
    ELSE IF ~enabled /\ self.loggingEnabled
    THEN [flushMessages(makeLogPrefixed(self, <<"logger">>,
                                        <<"disabling logging">>))
             EXCEPT !.timerActive = FALSE, !.loggingEnabled = FALSE]
    ELSE self

\* setLoggingEnabled flushing before it logs the "disabling logging" line
setLoggingEnabled_flushFirst(self, enabled) ==
    IF enabled /\ ~self.loggingEnabled
    THEN LET on == makeLogPrefixed([self EXCEPT !.loggingEnabled = TRUE],
                                   <<"logger">>, <<"enabling logging">>)
         IN IF ~on.immediateMode THEN [on EXCEPT !.timerActive = TRUE] ELSE on
    ELSE IF ~enabled /\ self.loggingEnabled
    THEN [makeLogPrefixed(flushMessages(self), <<"logger">>,
                          <<"disabling logging">>)
             EXCEPT !.timerActive = FALSE, !.loggingEnabled = FALSE]
    ELSE self

\* setLoggingEnabled whose enable branch does not start the timer
setLoggingEnabled_noStart(self, enabled) ==
    IF enabled /\ ~self.loggingEnabled
    THEN makeLogPrefixed([self EXCEPT !.loggingEnabled = TRUE],
                         <<"logger">>, <<"enabling logging">>)
    ELSE IF ~enabled /\ self.loggingEnabled
    THEN [flushMessages(makeLogPrefixed(self, <<"logger">>,
                                        <<"disabling logging">>))
             EXCEPT !.timerActive = FALSE, !.loggingEnabled = FALSE]
    ELSE self

setLoggingEnabled(self, enabled) ==
    IF enabled /\ ~self.loggingEnabled
    THEN LET on == makeLogPrefixed([self EXCEPT !.loggingEnabled = TRUE],
                                   <<"logger">>, <<"enabling logging">>)
         IN IF ~on.immediateMode THEN [on EXCEPT !.timerActive = TRUE] ELSE on
    ELSE IF ~enabled /\ self.loggingEnabled
    THEN [flushMessages(makeLogPrefixed(self, <<"logger">>,
                                        <<"disabling logging">>))
             EXCEPT !.timerActive = FALSE, !.loggingEnabled = FALSE]
    ELSE self

\* setFlushTime entering immediate mode without the flush
setFlushTime_noFlush(self, msec) ==
    IF msec <= 0
    THEN [self EXCEPT !.timerActive = FALSE, !.immediateMode = TRUE]
    ELSE [self EXCEPT !.immediateMode = FALSE,
                      !.timerInterval = Max(MinInterval, msec),
                      !.timerActive = TRUE]

\* setFlushTime taking the interval as given
setFlushTime_noClamp(self, msec) ==
    IF msec <= 0
    THEN LET stopped == [self EXCEPT !.timerActive = FALSE]
             flushed == IF ~stopped.immediateMode THEN flushMessages(stopped)
                        ELSE stopped
         IN [flushed EXCEPT !.immediateMode = TRUE]
    ELSE [self EXCEPT !.immediateMode = FALSE,
                      !.timerInterval = msec,
                      !.timerActive = TRUE]

setFlushTime(self, msec) ==
    IF msec <= 0
    THEN LET stopped == [self EXCEPT !.timerActive = FALSE]
             flushed == IF ~stopped.immediateMode THEN flushMessages(stopped)
                        ELSE stopped
         IN [flushed EXCEPT !.immediateMode = TRUE]
    ELSE [self EXCEPT !.immediateMode = FALSE,
                      !.timerInterval = Max(MinInterval, msec),
                      !.timerActive = TRUE]

\* The handler a queued invocation names, applied to its arguments
invoke(self, r) ==
    CASE r.method = "makeLog" -> makeLog(self, r.args[1])
      [] r.method = "makeLogPrefixed" ->
            makeLogPrefixed(self, r.args[1], r.args[2])
      [] r.method = "makeLogDescriptively" ->
            makeLogDescriptively(self, r.args[1], r.args[2], r.args[3])

\* i.toLocal8Bit().data(): the atoms stand for their bytes in the locale
toLocal8Bit(s) == [k \in 1..Len(s) |-> s[k]]

\* fatalMessage walking the buffer from its end
fatalMessage_reversed(err) ==
    IF loggerInstance # NoInstance
    THEN err \o Flatten([k \in 1..Len(pendingMessages) |->
             toLocal8Bit(pendingMessages[Len(pendingMessages) + 1 - k])
                 \o <<"\n">>])
    ELSE err

\* Logger::fatalMessage before std::abort(): what standard error holds
fatalMessage(err) ==
    IF loggerInstance # NoInstance
    THEN err \o Flatten([k \in 1..Len(pendingMessages) |->
                            toLocal8Bit(pendingMessages[k]) \o <<"\n">>])
    ELSE err

\* the level loggerCallback passes for each QtMsgType
Level(type) ==
    CASE type = "QtDebugMsg" -> "debug"
      [] type = "QtInfoMsg" -> "info"
      [] type = "QtWarningMsg" -> "warn"
      [] type = "QtCriticalMsg" -> "crit"
      [] type = "QtFatalMsg" -> "fatal"

----------------------------------------------------------------------------
(* LogStream: the line builder. Its buffer is a string; QVariant values   *)
(* are records of a type name and a value, a map holding its (key, value) *)
(* pairs in key order, which is the order QMap iterates in.               *)

QString(s) == [type |-> "QString", value |-> s]
QInt(n) == [type |-> "int", value |-> n]
QVariantList(vs) == [type |-> "QVariantList", value |-> vs]
QVariantMap(kvs) == [type |-> "QVariantMap", value |-> kvs]
Invalid == [type |-> "Invalid", value |-> ""]

\* QVariant::canConvert: a string or a number converts to QString and to
\* neither container, a container to its own kind only
canConvert(a, targetType) ==
    CASE targetType = "QVariantMap" -> a.type = "QVariantMap"
      [] targetType = "QVariantList" -> a.type = "QVariantList"
      [] targetType = "QString" -> a.type \in {"QString", "int"}

\* QVariant::toString
toString(a) == IF a.type = "int" THEN ToString(a.value) ELSE a.value

\* LogStream::operator<<(const QVariant &): the buffer after writing a
RECURSIVE shl_QVariant(_, _)
shl_QVariant(buffer, a) ==
    IF canConvert(a, "QVariantMap")
    THEN LET list == a.value
             RECURSIVE entries(_, _)
             entries(b, i) ==
                 IF i > Len(list) THEN b
                 ELSE LET count == Len(list) - i + 1
                          keyed == b \o "\"" \o list[i][1] \o "\":"
                          valued == shl_QVariant(keyed, list[i][2])
                      IN entries(IF count > 1 THEN valued \o ", "
                                 ELSE valued, i + 1)
         IN entries(buffer \o "{", 1) \o "}"
    ELSE IF canConvert(a, "QVariantList")
    THEN LET list == a.value
             count == Len(list)
             RECURSIVE items(_, _)
             items(b, i) ==
                 IF i >= count THEN b
                 ELSE LET valued == shl_QVariant(b, list[i + 1])
                      IN items(IF i < count - 1 THEN valued \o ", "
                               ELSE valued, i + 1)
         IN items(buffer \o "[", 0) \o "]"
    ELSE IF canConvert(a, "QString")
    THEN buffer \o toString(a)
    ELSE buffer \o "(unserializable)"

\* LogStream::~LogStream: the buffer is logged as one piece of text
LogStream_destructor(self, prefix, level, buffer) ==
    IF buffer = "" THEN self
    ELSE IF prefix = <<>> /\ level = <<>> THEN log_1(self, <<buffer>>)
    ELSE IF level = <<>> THEN log_2(self, prefix, <<buffer>>)
    ELSE log_3(self, prefix, level, <<buffer>>)

----------------------------------------------------------------------------
(* What the runs log: producer t's n-th message ends with the atoms t, n *)

Message(t, n) == <<t, Digit[n]>>

IsProducerLine(l) ==
    /\ Len(l) >= 2
    /\ l[Len(l) - 1] \in Threads
    /\ \E n \in 1..Len(Digit) : Digit[n] = l[Len(l)]

LineProducer(l) == l[Len(l) - 1]
LineSeq(l) == CHOOSE n \in 1..Len(Digit) : Digit[n] = l[Len(l)]

\* the line a queued invocation asks to log, as makeLog would keep it
RequestLine(r) ==
    trimmed(CASE r.method = "makeLog" -> r.args[1]
              [] r.method = "makeLogPrefixed" -> Arg2(r.args[1], r.args[2])
              [] r.method = "makeLogDescriptively" ->
                    Arg3(r.args[1], r.args[2], r.args[3]))

Op(op, t) ==
    [op |-> op, thread |-> t, flag |-> FALSE, msec |-> 0, path |-> "",
     was |-> loggingEnabled, posted |-> FALSE, sink |-> "", emitted |-> 0]

Running == ~aborted
Idle == [at |-> "idle", inst |-> NoInstance]
Alive == ~aborted /\ loggerInstance # NoInstance

----------------------------------------------------------------------------
Init ==
    /\ loggerInstanceSetBefore = TRUE
    /\ loggerInstance = 1
    /\ liveInstances = {1}
    /\ pc = [t \in Threads |-> Idle]
    /\ loggingEnabled = InitialLoggingEnabled
    /\ immediateMode = FALSE
    /\ pendingMessages = <<>>
    /\ logFileName = EmptyString
    /\ logFile = InitialPointer
    /\ logFileStream = InitialPointer
    /\ timerActive = FALSE
    /\ timerInterval = DefaultInterval
    /\ queue = <<>>
    /\ files = [f \in Paths |-> <<>>]
    /\ events = <<>>
    /\ stderrOut = <<>>
    /\ aborted = FALSE
    /\ sent = [t \in Threads |-> 0]
    /\ accepted = {}
    /\ nCalls = 0
    /\ lastOp = [op |-> "Logger", thread |-> Owner, flag |-> FALSE, msec |-> 0,
                 path |-> "", was |-> FALSE, posted |-> FALSE, sink |-> "",
                 emitted |-> 0]

\* Logger::log(line), called by producer t
Log(t) ==
    /\ Running
    /\ nCalls < MaxCalls
    /\ LET n == sent[t] + 1 IN
       /\ Commit(log_1(this, <<" ">> \o Message(t, n) \o <<" ">>))
       /\ sent' = [sent EXCEPT ![t] = n]
    /\ nCalls' = nCalls + 1
    /\ lastOp' = Op("log", t)
    /\ UNCHANGED <<statics, stderrOut, aborted, accepted>>

\* qWarning(), qFatal() ... on thread t: the installed message handler
LoggerCallback(t, type) ==
    /\ Running
    /\ nCalls < MaxCalls
    /\ LET n == sent[t] + 1 IN
       /\ Commit(log_3(this, <<"qt">>, <<Level(type)>>, Message(t, n)))
       /\ sent' = [sent EXCEPT ![t] = n]
    /\ IF type = "QtFatalMsg"
       THEN /\ stderrOut' = fatalMessage(stderrOut)
            /\ aborted' = TRUE
       ELSE UNCHANGED <<stderrOut, aborted>>
    /\ nCalls' = nCalls + 1
    /\ lastOp' = [Op("loggerCallback", t) EXCEPT !.path = type]
    /\ UNCHANGED <<statics, accepted>>

\* Logger::fatalMessage() called directly
FatalMessage(t) ==
    /\ Running
    /\ stderrOut' = fatalMessage(stderrOut)
    /\ aborted' = TRUE
    /\ lastOp' = Op("fatalMessage", t)
    /\ UNCHANGED <<statics, fields, queue, files, events, ghosts>>

\* the owning thread's event loop delivers the oldest queued invocation
Dispatch ==
    /\ Alive
    /\ queue # <<>>
    /\ LET r == Head(queue) IN
       /\ Commit(invoke([this EXCEPT !.queue = Tail(@)], r))
       /\ accepted' = IF loggingEnabled /\ IsProducerLine(RequestLine(r))
                      THEN accepted \cup {RequestLine(r)}
                      ELSE accepted
       /\ lastOp' = [Op(r.method, Owner) EXCEPT
                        !.posted = r.postedEnabled, !.sink = r.postedSink,
                        !.emitted = Len(events') - Len(events)]
    /\ UNCHANGED <<statics, stderrOut, aborted, sent, nCalls>>

\* QTimer::timeout of flushTimer, connected to flushMessages
Timeout ==
    /\ Alive
    /\ timerActive
    /\ Commit(flushMessages(this))
    /\ lastOp' = [Op("timeout", Owner) EXCEPT
                     !.emitted = Len(events') - Len(events)]
    /\ UNCHANGED <<statics, stderrOut, aborted, ghosts>>

\* QFile::open(QFile::WriteOnly) succeeds for the paths of Writable
SetLogFile(t, fileName) ==
    /\ Alive
    /\ fileName # logFileName => nCalls < MaxCalls
    /\ Commit(setLogFile(this, fileName, fileName \in Writable))
    /\ nCalls' = IF fileName # logFileName THEN nCalls + 1 ELSE nCalls
    /\ lastOp' = [Op("setLogFile", t) EXCEPT !.path = fileName]
    /\ UNCHANGED <<statics, stderrOut, aborted, sent, accepted>>

SetLoggingEnabled(t, enabled) ==
    /\ Alive
    /\ enabled # loggingEnabled => nCalls < MaxCalls
    /\ Commit(setLoggingEnabled(this, enabled))
    /\ nCalls' = IF enabled # loggingEnabled THEN nCalls + 1 ELSE nCalls
    /\ lastOp' = [Op("setLoggingEnabled", t) EXCEPT
                     !.flag = enabled, !.emitted = Len(events') - Len(events)]
    /\ UNCHANGED <<statics, stderrOut, aborted, sent, accepted>>

SetFlushTime(t, msec) ==
    /\ Alive
    /\ Commit(setFlushTime(this, msec))
    /\ lastOp' = [Op("setFlushTime", t) EXCEPT
                     !.msec = msec, !.emitted = Len(events') - Len(events)]
    /\ UNCHANGED <<statics, stderrOut, aborted, ghosts>>

\* Logger::~Logger on the owning thread: the QObject destructor drops the
\* invocations still queued for the object and deletes the child timer
DeleteLogger ==
    /\ Alive
    /\ loggerInstance' = NoInstance
    /\ liveInstances' = liveInstances \ {loggerInstance}
    /\ logFileStream' = NullPtr
    /\ logFile' = NullPtr
    /\ queue' = <<>>
    /\ timerActive' = FALSE
    /\ pendingMessages' = <<>>
    /\ lastOp' = Op("~Logger", Owner)
    /\ UNCHANGED <<loggerInstanceSetBefore, pc, loggingEnabled, immediateMode,
                   logFileName, timerInterval, outputs, ghosts>>

\* the QVariant of each name
Value(name) ==
    CASE name = "sample" ->
             QVariantMap(<< <<"a", QVariantList(<<QInt(1), QString("x")>>)>>,
                            <<"b", QInt(2)>> >>)
      [] name = "nested" ->
             QVariantList(<<QVariantMap(<<>>), QVariantList(<<>>),
                            QVariantMap(<< <<"k", QString("y")>> >>)>>)
      [] name = "text" -> QString("x")
      [] name = "empty" -> QString("")
      [] name = "invalid" -> Invalid

\* a statement LogStream(prefix, level) << a; on thread t: the temporary
\* is constructed, written to and destroyed
LogStreamStatement(t, prefix, level, name) ==
    /\ Running
    /\ nCalls < MaxCalls
    /\ Commit(LogStream_destructor(this, prefix, level,
                                   shl_QVariant("", Value(name))))
    /\ nCalls' = nCalls + 1
    /\ lastOp' = [Op("LogStream", t) EXCEPT !.path = name]
    /\ UNCHANGED <<statics, stderrOut, aborted, sent, accepted>>

Next ==
    \/ Log("p1")
    \/ \E t \in {"p2", Owner} : \E type \in MsgTypes(t) : LoggerCallback(t, type)
    \/ FatalMessage(Owner)
    \/ Dispatch
    \/ Timeout
    \/ \E f \in Paths \cup {EmptyString} : SetLogFile(Owner, f)
    \/ \E e \in BOOLEAN : SetLoggingEnabled(Owner, e)
    \/ \E m \in Msecs : SetFlushTime(Owner, m)
    \/ DeleteLogger

Spec == Init /\ [][Next]_vars

----------------------------------------------------------------------------
(* The same object with its slots called directly from any thread *)

NextAnyThread ==
    \/ Log("p1")
    \/ Dispatch
    \/ Timeout
    \/ \E t \in Callers, f \in Paths \cup {EmptyString} : SetLogFile(t, f)
    \/ \E t \in Callers, e \in BOOLEAN : SetLoggingEnabled(t, e)
    \/ \E t \in Callers, m \in Msecs : SetFlushTime(t, m)

SpecAnyThread == Init /\ [][NextAnyThread]_vars

----------------------------------------------------------------------------
(* The flush timer under every kind of setFlushTime argument *)

NextTimer ==
    \/ Log("p1")
    \/ Dispatch
    \/ Timeout
    \/ \E e \in BOOLEAN : SetLoggingEnabled(Owner, e)
    \/ \E m \in FlushTimes : SetFlushTime(Owner, m)

SpecTimer == Init /\ [][NextTimer]_vars

----------------------------------------------------------------------------
(* A process that goes on: no fatal message, no teardown, and the owning   *)
(* thread's event loop keeps delivering the timeouts of a running timer.   *)

NextLive ==
    \/ Log("p1")
    \/ Dispatch
    \/ Timeout
    \/ \E e \in BOOLEAN : SetLoggingEnabled(Owner, e)
    \/ \E m \in Msecs : SetFlushTime(Owner, m)

SpecLive == Init /\ [][NextLive]_vars /\ WF_vars(Timeout)

----------------------------------------------------------------------------
(* Lines built with LogStream from structured values *)

NextRender ==
    \/ \E u \in LogStreamUses : LogStreamStatement("p1", u[1], u[2], u[3])
    \/ Dispatch
    \/ \E e \in BOOLEAN : SetLoggingEnabled(Owner, e)

SpecRender == Init /\ [][NextRender]_vars

----------------------------------------------------------------------------
(* Creation and destruction of Logger objects, statement by statement:     *)
(* singleton() reads the two statics, constructs, stores the pointer and   *)
(* sets the flag; threads may be anywhere in it at the same time.          *)

InitSingleton ==
    /\ loggerInstanceSetBefore = FALSE
    /\ loggerInstance = NoInstance
    /\ liveInstances = {}
    /\ pc = [t \in Threads |-> Idle]
    /\ loggingEnabled = InitialLoggingEnabled
    /\ immediateMode = FALSE
    /\ pendingMessages = <<>>
    /\ logFileName = EmptyString
    /\ logFile = InitialPointer
    /\ logFileStream = InitialPointer
    /\ timerActive = FALSE
    /\ timerInterval = DefaultInterval
    /\ queue = <<>>
    /\ files = [f \in Paths |-> <<>>]
    /\ events = <<>>
    /\ stderrOut = <<>>
    /\ aborted = FALSE
    /\ sent = [t \in Threads |-> 0]
    /\ accepted = {}
    /\ nCalls = 0
    /\ lastOp = [op |-> "main", thread |-> Owner, flag |-> FALSE, msec |-> 0,
                 path |-> "", was |-> FALSE, posted |-> FALSE, sink |-> "",
                 emitted |-> 0]

\* the objects under construction, not yet stored anywhere
InFlight == {pc[t].inst : t \in Threads} \ {NoInstance}

\* the address a new object gets
NewInstance ==
    CHOOSE i \in 1..MaxInstances : i \notin liveInstances

CanConstruct == Cardinality(liveInstances) < MaxInstances

frame == <<fields, queue, files, events, stderrOut, ghosts>>

\* Logger::Logger: aborts if the flag is set, else the object exists
Constructor(then) ==
    IF loggerInstanceSetBefore
    THEN /\ aborted' = TRUE
         /\ UNCHANGED <<liveInstances, pc>>
    ELSE /\ liveInstances' = liveInstances \cup {NewInstance}
         /\ then
         /\ UNCHANGED aborted

\* singleton(): the test "!loggerInstanceSetBefore && !loggerInstance"
SingletonTest(t) ==
    /\ Running
    /\ pc[t].at = "idle"
    /\ pc' = IF ~loggerInstanceSetBefore /\ loggerInstance = NoInstance
             THEN [pc EXCEPT ![t] = [at |-> "new", inst |-> NoInstance]]
             ELSE pc
    /\ lastOp' = Op("singleton", t)
    /\ UNCHANGED <<loggerInstanceSetBefore, loggerInstance, liveInstances,
                   aborted, frame>>

\* singleton(): new Logger()
SingletonNew(t) ==
    /\ Running
    /\ pc[t].at = "new"
    /\ CanConstruct
    /\ Constructor(pc' = [pc EXCEPT ![t] = [at |-> "store",
                                             inst |-> NewInstance]])
    /\ lastOp' = Op("Logger", t)
    /\ UNCHANGED <<loggerInstanceSetBefore, loggerInstance, frame>>

\* singleton(): loggerInstance = (the new object)
SingletonStore(t) ==
    /\ Running
    /\ pc[t].at = "store"
    /\ loggerInstance' = pc[t].inst
    /\ pc' = [pc EXCEPT ![t] = [at |-> "flag", inst |-> NoInstance]]
    /\ lastOp' = Op("singleton", t)
    /\ UNCHANGED <<loggerInstanceSetBefore, liveInstances, aborted, frame>>

\* singleton(): loggerInstanceSetBefore = true; return loggerInstance
SingletonSetFlag(t) ==
    /\ Running
    /\ pc[t].at = "flag"
    /\ loggerInstanceSetBefore' = TRUE
    /\ pc' = [pc EXCEPT ![t] = Idle]
    /\ lastOp' = Op("singleton", t)
    /\ UNCHANGED <<loggerInstance, liveInstances, aborted, frame>>

\* new Logger(owner) written by the program itself
Construct(t) ==
    /\ Running
    /\ pc[t].at = "idle"
    /\ CanConstruct
    /\ Constructor(UNCHANGED pc)
    /\ lastOp' = Op("Logger", t)
    /\ UNCHANGED <<loggerInstanceSetBefore, loggerInstance, frame>>

\* delete of a Logger the program holds: ~Logger clears the static pointer
Destroy(i) ==
    /\ Running
    /\ i \in liveInstances \ InFlight
    /\ liveInstances' = liveInstances \ {i}
    /\ loggerInstance' = NoInstance
    /\ lastOp' = Op("~Logger", Owner)
    /\ UNCHANGED <<loggerInstanceSetBefore, pc, aborted, frame>>

NextSingleton ==
    \/ \E t \in Threads : SingletonTest(t)
    \/ \E t \in Threads : SingletonNew(t)
    \/ \E t \in Threads : SingletonStore(t)
    \/ \E t \in Threads : SingletonSetFlag(t)
    \/ \E t \in Threads : Construct(t)
    \/ \E i \in 1..MaxInstances : Destroy(i)

SpecSingleton == InitSingleton /\ [][NextSingleton]_vars

----------------------------------------------------------------------------
(* Vocabulary of the properties *)

Handlers == {"makeLog", "makeLogPrefixed", "makeLogDescriptively"}
Setters == {"setLogFile", "setLoggingEnabled", "setFlushTime"}

EnablingLine == <<"[", "logger", "]", " ", "enabling logging">>
DisablingLine == <<"[", "logger", "]", " ", "disabling logging">>
ClosedLine == <<"[", "logger", "]", " ", "log file closed">>

Single(l) == [kind |-> "logMessage", lines |-> <<l>>]
Batch(ls) == [kind |-> "logMessageBuffer", lines |-> ls]

\* every line handed to subscribers, in the order of delivery
Delivered == Flatten([k \in 1..Len(events) |-> events[k].lines])

Queued == [k \in 1..Len(queue) |-> RequestLine(queue[k])]

LinesOf(t, ls) ==
    SelectSeq(ls, LAMBDA l : IsProducerLine(l) /\ LineProducer(l) = t)

Increasing(ls) ==
    \A i, j \in 1..Len(ls) : i < j => LineSeq(ls[i]) < LineSeq(ls[j])

Count(l, ls) == Cardinality({k \in 1..Len(ls) : ls[k] = l})

WithNewlines(ls) == Flatten([k \in 1..Len(ls) |-> ls[k] \o <<"\n">>])

----------------------------------------------------------------------------
\* C1: the lines of one producer thread reach the buffer and the subscribers
\* in the order of its log calls: over what was delivered, then what is
\* pending, then what is still queued, each thread's sequence numbers only
\* grow, whatever the other threads and the timer do in between.
PerProducerFifo ==
    \A t \in Threads :
        Increasing(LinesOf(t, Delivered \o pendingMessages \o Queued))

\* one batch carries two lines of p1 and, between the calls, a line of p2
PerProducerFifoWitness ==
    \E k \in 1..Len(events) :
        /\ events[k].kind = "logMessageBuffer"
        /\ Len(LinesOf("p1", events[k].lines)) = 2
        /\ Len(LinesOf("p2", events[k].lines)) = 1

\* C2 as claimed: a request posted while logging was disabled leaves the
\* buffer, the events and the files as they were when its handler runs.
PostedWhileDisabledDiscarded ==
    [][(lastOp'.op \in Handlers /\ ~lastOp'.posted) =>
          /\ pendingMessages' = pendingMessages
          /\ events' = events
          /\ files' = files]_vars

\* C2 amended: the test is made when the handler runs on the owning thread.
\* A request handled while logging is disabled is consumed and changes
\* neither buffer, events nor files; one handled while logging is enabled is
\* accepted (buffered, or emitted alone in immediate mode), also when it was
\* posted while logging was disabled.
HandledWhileDisabledDiscarded ==
    [][lastOp'.op \in Handlers =>
          /\ queue' = Tail(queue)
          /\ IF ~loggingEnabled
             THEN /\ pendingMessages' = pendingMessages
                  /\ events' = events
                  /\ files' = files
             ELSE IF immediateMode
             THEN events' = Append(events, Single(RequestLine(Head(queue))))
             ELSE pendingMessages' =
                      Append(pendingMessages, RequestLine(Head(queue)))]_vars

\* a request posted while enabled was handled, and dropped, while disabled
HandledWhileDisabledWitness ==
    /\ lastOp.op \in Handlers
    /\ lastOp.posted
    /\ ~lastOp.was
    /\ nCalls >= 3

\* C3: a line accepted by makeLog is delivered at most once, is either
\* delivered or still pending, and has been delivered whenever logging is
\* disabled: the disable transition flushed it, and enabling again neither
\* loses nor repeats it.
AcceptedSurviveDisable ==
    \A l \in accepted :
        /\ Count(l, Delivered) <= 1
        /\ loggerInstance # NoInstance =>
              /\ Count(l, Delivered) + Count(l, pendingMessages) = 1
              /\ ~loggingEnabled => Count(l, Delivered) = 1

\* logging is enabled again after a disable whose flush carried an accepted
\* line, followed by the "disabling logging" line
AcceptedSurviveDisableWitness ==
    /\ loggingEnabled
    /\ \E k \in 1..Len(events) :
          /\ events[k].kind = "logMessageBuffer"
          /\ Last(events[k].lines) = DisablingLine
          /\ \E l \in accepted : Count(l, events[k].lines) = 1

\* C4 as claimed: the "log file closed" request that setLogFile("") posted
\* while a stream was open ends up in that stream's file when it is handled
\* (logging enabled, immediate mode).
ClosureLineWrittenToFile ==
    [][(/\ lastOp'.op = "makeLogPrefixed"
        /\ RequestLine(Head(queue)) = ClosedLine
        /\ Head(queue).postedSink # NullPtr
        /\ loggingEnabled /\ immediateMode) =>
          EndsWith(files'[Head(queue).postedSink],
                   ClosedLine \o <<"\n">>)]_vars

\* C5 as claimed: while the file name is one whose open failed, nothing is
\* written to any file.
NoFileWriteAfterFailedOpen ==
    [][(logFileName \in Paths \ Writable /\ logFileName' = logFileName) =>
          files' = files]_vars

\* C6 as claimed: at most one Logger object is alive at any time.
AtMostOneLiveInstance == Cardinality(liveInstances) <= 1

ImmediateModeFlush ==
    [][/\ (lastOp'.op = "setFlushTime" /\ lastOp'.msec <= 0) =>
             /\ pendingMessages' = <<>>
             /\ immediateMode' /\ ~timerActive'
             /\ events' = IF pendingMessages = <<>> THEN events
                          ELSE Append(events, Batch(pendingMessages))
       /\ (lastOp'.op \in Handlers /\ loggingEnabled /\ immediateMode) =>
             /\ events' = Append(events, Single(RequestLine(Head(queue))))
             /\ pendingMessages' = <<>>
             /\ logFileStream # NullPtr =>
                   EndsWith(files'[logFileStream],
                            RequestLine(Head(queue)) \o <<"\n">>)]_vars

\* setFlushTime(0) has just flushed a buffer of two lines or more
ImmediateModeFlushWitness ==
    /\ lastOp.op = "setFlushTime" /\ lastOp.msec <= 0
    /\ lastOp.emitted = 1
    /\ Len(Last(events).lines) >= 2
    /\ immediateMode /\ pendingMessages = <<>>

\* C9: the fatal path appends each pending line and a newline to standard
\* error, in order, and terminates; it emits no event, writes no file and
\* leaves the buffer as it was; without an instance it writes nothing.
FatalDrain ==
    [][lastOp'.op \in {"fatalMessage", "loggerCallback"} /\ aborted' =>
          /\ events' = events
          /\ files' = files
          /\ pendingMessages' = pendingMessages
          /\ stderrOut' = stderrOut \o
                (IF loggerInstance = NoInstance \/ pendingMessages = <<>>
                 THEN <<>>
                 ELSE join(pendingMessages, "\n") \o <<"\n">>)]_vars

\* the fatal path ran with two lines or more pending
FatalDrainWitness ==
    /\ aborted
    /\ lastOp.op = "fatalMessage"
    /\ Len(pendingMessages) >= 2
    /\ stderrOut = WithNewlines(pendingMessages)

\* C10: setLoggingEnabled with the value logging already has changes no
\* member, queues nothing, emits nothing and writes nothing.
SetLoggingEnabledIdempotent ==
    [][(lastOp'.op = "setLoggingEnabled" /\ lastOp'.flag = loggingEnabled) =>
          UNCHANGED <<fields, queue, files, events>>]_vars

\* enabling was asked for while enabled, with lines pending
SetLoggingEnabledIdempotentWitness ==
    /\ lastOp.op = "setLoggingEnabled"
    /\ lastOp.flag /\ lastOp.was
    /\ pendingMessages # <<>>
    /\ timerActive


\* C11: setLoggingEnabled(true) while disabled emits the "enabling logging"
\* line once and at once, ahead of the requests still queued: in buffered
\* mode the buffer becomes that line alone and no event is emitted, in
\* immediate mode the line is the one event emitted; the queue is untouched.
EnablingLineFirst ==
    [][(lastOp'.op = "setLoggingEnabled" /\ lastOp'.flag /\ ~loggingEnabled) =>
          /\ loggingEnabled'
          /\ queue' = queue
          /\ IF immediateMode
             THEN /\ events' = Append(events, Single(EnablingLine))
                  /\ pendingMessages' = <<>>
             ELSE /\ pendingMessages' = <<EnablingLine>>
                  /\ events' = events]_vars

\* logging was enabled while a request posted earlier was still queued
EnablingLineFirstWitness ==
    /\ lastOp.op = "setLoggingEnabled" /\ lastOp.flag /\ ~lastOp.was
    /\ queue # <<>>
    /\ pendingMessages = <<EnablingLine>>


\* C15 as claimed: the flush timer runs only while logging is enabled in
\* buffered mode; whenever logging is disabled or immediate mode is set the
\* timer is stopped, so no timeout can happen there.
TimerOnlyInBufferedActive ==
    timerActive => (loggingEnabled /\ ~immediateMode)

\* C16: a flush with an empty buffer emits no event and writes nothing; with
\* lines in the buffer it emits one batch event that carries the whole buffer
\* in order and leaves the buffer empty, in the same step. No batch event is
\* ever empty.
FlushWholeBufferOrNothing ==
    [][(lastOp'.op = "timeout" =>
            IF pendingMessages = <<>>
            THEN events' = events /\ files' = files
                 /\ pendingMessages' = <<>>
            ELSE /\ events' = Append(events, Batch(pendingMessages))
                 /\ pendingMessages' = <<>>
                 /\ logFileStream # NullPtr =>
                        LET old == files[logFileStream] IN
                        files' = [files EXCEPT ![logFileStream] =
                            (IF old = <<>> THEN <<"BOM">> ELSE old)
                            \o join(pendingMessages, "\n") \o <<"\n">>])
        /\ \A k \in 1..Len(events') :
               events'[k].kind = "logMessageBuffer" => events'[k].lines # <<>>
       ]_vars

\* a timeout flushed a buffer of several lines into an open file
FlushWholeBufferWitness ==
    /\ lastOp.op = "timeout" /\ lastOp.emitted = 1
    /\ Len(Last(events).lines) >= 2
    /\ logFileStream # NullPtr

\* C17: setLoggingEnabled(false) while enabled delivers the "disabling
\* logging" line last: in buffered mode as the last line of one batch made of
\* the buffer followed by it, in immediate mode as a single-line event.
\* After the call the buffer is empty, the timer stopped, logging disabled.
DisablingLineLast ==
    [][(lastOp'.op = "setLoggingEnabled" /\ ~lastOp'.flag /\ loggingEnabled) =>
          /\ events' = Append(events,
                IF immediateMode THEN Single(DisablingLine)
                ELSE Batch(Append(pendingMessages, DisablingLine)))
          /\ pendingMessages' = <<>>
          /\ ~timerActive'
          /\ ~loggingEnabled']_vars

\* logging was disabled with producer lines still in the buffer
DisablingLineLastWitness ==
    /\ lastOp.op = "setLoggingEnabled" /\ ~lastOp.flag /\ lastOp.was
    /\ Len(Last(events).lines) >= 3
    /\ Last(Last(events).lines) = DisablingLine
    /\ ~loggingEnabled

\* C18: the buffer is empty whenever logging is disabled and whenever
\* immediate mode is set; lines wait in it only in enabled buffered mode.
PendingOnlyInBufferedActive ==
    (~loggingEnabled \/ immediateMode) => pendingMessages = <<>>

\* immediate mode was entered, or logging disabled, over a non-empty buffer
PendingOnlyInBufferedActiveWitness ==
    /\ lastOp.op \in {"setFlushTime", "setLoggingEnabled"}
    /\ lastOp.emitted = 1
    /\ (immediateMode \/ ~loggingEnabled)
    /\ \E l \in accepted : Count(l, Last(events).lines) = 1

\* the events that carry line l, with multiplicity inside a batch
Deliveries(l) ==
    Cardinality({<<k, i>> \in (1..Len(events)) \X (1..(MaxCalls + 4)) :
                    i <= Len(events[k].lines) /\ events[k].lines[i] = l})

\* C19: while the instance lives and no fatal drain has run, every accepted
\* line is accounted for exactly once: it is either still in the buffer (once)
\* or was delivered in exactly one event (a single-line event or one batch),
\* never in two events and never twice in one.
AcceptedDeliveredOnce ==
    (Alive) =>
        \A l \in accepted :
            /\ Deliveries(l) + Count(l, pendingMessages) = 1
            /\ Count(l, Delivered) <= 1

\* one accepted line went out alone and another in a batch
AcceptedDeliveredOnceWitness ==
    /\ Alive
    /\ \E l \in accepted : \E k \in 1..Len(events) :
           events[k] = Single(l)
    /\ \E l \in accepted : \E k \in 1..Len(events) :
           /\ events[k].kind = "logMessageBuffer"
           /\ Count(l, events[k].lines) = 1
           /\ Len(events[k].lines) >= 2

\* the line loggerCallback asks to log for thread t's latest message
FatalLine(t) == trimmed(Arg3(<<"qt">>, <<"fatal">>, Message(t, sent[t])))

Atoms(s) == {s[k] : k \in 1..Len(s)}

\* C20: when a fatal message is reported on the owning thread, its line is
\* only posted (it is the last queued request) when the drain runs: standard
\* error holds exactly the lines of the buffer, the fatal line is neither in
\* the buffer nor on standard error, and it is in no event and no file.
FatalLineOnlyPosted ==
    (aborted /\ lastOp.op = "loggerCallback" /\ lastOp.thread = Owner) =>
        /\ loggerInstance # NoInstance =>
               /\ queue # <<>>
               /\ RequestLine(Last(queue)) = FatalLine(Owner)
               /\ stderrOut = WithNewlines(pendingMessages)
        /\ Count(FatalLine(Owner), pendingMessages) = 0
        /\ Count(FatalLine(Owner), Delivered) = 0
        /\ "fatal" \notin Atoms(stderrOut)
        /\ \A f \in Paths : "fatal" \notin Atoms(files[f])

\* the fatal drain printed buffered lines while the fatal line was queued
FatalLineOnlyPostedWitness ==
    /\ aborted /\ lastOp.op = "loggerCallback" /\ lastOp.thread = Owner
    /\ pendingMessages # <<>>
    /\ stderrOut = WithNewlines(pendingMessages)
    /\ RequestLine(Last(queue)) = FatalLine(Owner)


\* C12: after setFlushTime(msec) with msec > 0 the timer interval is
\* max(100, msec), the timer runs and immediate mode is off, and nothing is
\* emitted or dropped; with 0 < msec < 100 the object is left exactly as
\* setFlushTime(100) would leave it.
IntervalClamped ==
    [][(lastOp'.op = "setFlushTime" /\ lastOp'.msec > 0) =>
          /\ timerInterval' =
                 (IF lastOp'.msec < 100 THEN 100 ELSE lastOp'.msec)
          /\ timerActive'
          /\ ~immediateMode'
          /\ pendingMessages' = pendingMessages
          /\ events' = events
          /\ lastOp'.msec < 100 =>
                 LET asked == setFlushTime(this, 100) IN
                 <<immediateMode', timerActive', timerInterval',
                   pendingMessages', events', files', queue'>> =
                 <<asked.immediateMode, asked.timerActive,
                   asked.timerInterval, asked.pendingMessages, asked.events,
                   asked.files, asked.queue>>]_vars

\* setFlushTime(50) was called with lines pending
IntervalClampedWitness ==
    /\ lastOp.op = "setFlushTime" /\ lastOp.msec = 50
    /\ timerInterval = 100 /\ timerActive /\ ~immediateMode
    /\ pendingMessages # <<>>


InBatch(l) ==
    \E k \in 1..Len(events) :
        events[k].kind = "logMessageBuffer" /\ Count(l, events[k].lines) >= 1

\* C13: a line buffered while logging is enabled in buffered mode is
\* eventually delivered in a batch event, given that the timeouts of the
\* running timer keep being processed; and setFlushTime, whichever way it
\* switches the mode, keeps every pending line: what was delivered followed
\* by what is pending is the same sequence before and after the call.
BufferedEventuallyDelivered ==
    /\ [][lastOp'.op = "setFlushTime" =>
             Delivered' \o pendingMessages' = Delivered \o pendingMessages]_vars
    /\ \A n \in 1..Len(Digit) :
           (Count(Message("p1", n), pendingMessages) >= 1)
               ~> InBatch(Message("p1", n))

\* a timeout delivered a batch that carries a line of p1
BufferedEventuallyDeliveredWitness ==
    /\ lastOp.op = "timeout" /\ lastOp.emitted = 1
    /\ \E n \in 1..Len(Digit) : Count(Message("p1", n), Last(events).lines) = 1


\* C14 as claimed: the structured value {"a": [1, "x"], "b": 2} written
\* through a line builder is logged as the text {"a":[1, "x"], "b":2}.
SampleRenderedQuoted ==
    (lastOp.op = "LogStream" /\ lastOp.path = "sample") =>
        /\ queue # <<>>
        /\ Last(Last(queue).args) = <<"{\"a\":[1, \"x\"], \"b\":2}">>

====
